---- MODULE Spec2Model ----
(***************************************************************************)
(* Session lifecycle of the live transcription client (src/App.tsx):       *)
(* startSession / stopUserAction / cleanupSession, the transport callbacks *)
(* onopen / onmessage / onclose / onerror, the reconnect timer and the     *)
(* transcript reconciler updateLiveTranscript.                             *)
(*                                                                         *)
(* Every invocation of startSession that passes its guard is a "call" with *)
(* an id in CallIds.  Call i owns the objects it creates: the audio        *)
(* context ctx[i], the microphone stream stream[i], the audio nodes        *)
(* node[i], the transport handle handle[i] and the connect promise         *)
(* promise[i].  A ref holds 0 for null, or the id of the object.           *)
(***************************************************************************)
EXTENDS Integers, Sequences, FiniteSets, TLC

MaxCalls == 2      \* startSession invocations that pass the guard
MaxText == 3       \* length of the accumulated utterance text (reconciler)
MaxEntries == 2    \* entries of the live transcript (reconciler)
MaxClock == 1      \* seconds the wall clock advances (reconciler)
LifeText == 1      \* length of the utterance text (lifecycle)
LifeEntries == 1   \* entries of the live transcript (lifecycle)

CallIds == 1..MaxCalls
TimerIds == 1..(2 * MaxCalls + 1)
MaxQueued == 2
Deltas == {<<>>, <<"a">>, <<"b">>}
LifeDeltas == {<<"a">>}

DISCONNECTED == "disconnected"
CONNECTING == "connecting"
CONNECTED == "connected"
ERROR == "error"
ConnectionStatus == {DISCONNECTED, CONNECTING, CONNECTED, ERROR}

NoTimer == [delay |-> 0, cap |-> [status |-> "none", fresh |-> FALSE]]
NoNode == [ctx |-> 0, stream |-> 0, on |-> FALSE]
NoClosure == [status |-> "none", fresh |-> FALSE]

\* history of the current utterance: the deltas received since the last turn
\* boundary, and the length of the transcript at that boundary
UttReset == [text |-> <<>>, before |-> 0, done |-> TRUE]

\* history of the audio block processed last: the call whose processor ran and
\* what became of the frame
NoFrame == [call |-> 0, outcome |-> "none"]

\* history of the sends the resolution of a connect promise ran last: the
\* call, the frames in the order they were sent and what became of them
NoFlush == [call |-> 0, frames |-> <<>>, outcome |-> "none"]

VARIABLES
  status, errorMsg, liveTranscript, audioBlob,
  inputAudioContextRef, mediaStreamRef, processorRef, sourceNodeRef,
  sessionRef, mediaRecorderRef, audioChunksRef, currentInputTransRef,
  isRecordingActiveRef, reconnectTimeoutRef,
  ctx, stream, node, handle, promise, pc, localStream, closure, timers,
  queue, variant,
  clock, lastOp, lastUserOp, utt, frame, attempt, origin, flushed,
  exported, localStorage, clients, selectedClient, view, descriptionPreview,
  pendingTranscript, isGenerating

progVars == <<status, errorMsg, liveTranscript, audioBlob,
  inputAudioContextRef, mediaStreamRef, processorRef, sourceNodeRef,
  sessionRef, mediaRecorderRef, audioChunksRef, currentInputTransRef,
  isRecordingActiveRef, reconnectTimeoutRef,
  ctx, stream, node, handle, promise, pc, localStream, closure, timers,
  queue, variant>>

\* the text last handed to the download or the clipboard, and the state of
\* the client list (src/unnamed/part_001, src/utils/storage.ts)
archiveVars == <<exported, localStorage, clients, selectedClient, view,
  descriptionPreview, pendingTranscript, isGenerating>>

vars == <<progVars, clock, lastOp, lastUserOp, utt, frame, attempt, origin,
  flushed, archiveVars>>

\* The program state as one record, so that a handler is a function on it.
\* thrown: an exception left the statement that ran last; the statements
\* after it in the handler are skipped.
S == [status |-> status, errorMsg |-> errorMsg,
      liveTranscript |-> liveTranscript, audioBlob |-> audioBlob,
      inputAudioContextRef |-> inputAudioContextRef,
      mediaStreamRef |-> mediaStreamRef, processorRef |-> processorRef,
      sourceNodeRef |-> sourceNodeRef, sessionRef |-> sessionRef,
      mediaRecorderRef |-> mediaRecorderRef,
      audioChunksRef |-> audioChunksRef,
      currentInputTransRef |-> currentInputTransRef,
      isRecordingActiveRef |-> isRecordingActiveRef,
      reconnectTimeoutRef |-> reconnectTimeoutRef,
      ctx |-> ctx, stream |-> stream, node |-> node, handle |-> handle,
      promise |-> promise, pc |-> pc, localStream |-> localStream,
      closure |-> closure, timers |-> timers, queue |-> queue,
      variant |-> variant,
      thrown |-> FALSE]

Commit(r) ==
  /\ status' = r.status
  /\ errorMsg' = r.errorMsg
  /\ liveTranscript' = r.liveTranscript
  /\ audioBlob' = r.audioBlob
  /\ inputAudioContextRef' = r.inputAudioContextRef
  /\ mediaStreamRef' = r.mediaStreamRef
  /\ processorRef' = r.processorRef
  /\ sourceNodeRef' = r.sourceNodeRef
  /\ sessionRef' = r.sessionRef
  /\ mediaRecorderRef' = r.mediaRecorderRef
  /\ audioChunksRef' = r.audioChunksRef
  /\ currentInputTransRef' = r.currentInputTransRef
  /\ isRecordingActiveRef' = r.isRecordingActiveRef
  /\ reconnectTimeoutRef' = r.reconnectTimeoutRef
  /\ ctx' = r.ctx
  /\ stream' = r.stream
  /\ node' = r.node
  /\ handle' = r.handle
  /\ promise' = r.promise
  /\ pc' = r.pc
  /\ localStream' = r.localStream
  /\ closure' = r.closure
  /\ timers' = r.timers
  /\ queue' = r.queue
  /\ variant' = r.variant

\* selectedClient === null
NoClient == [id |-> 0, name |-> "", knowledgeBase |-> "", sessions |-> <<>>]

\* the state after construction, but for the transcript and the stored
\* client list
InitBase ==
  /\ status = DISCONNECTED
  /\ errorMsg = "null"
  /\ audioBlob = 0
  /\ inputAudioContextRef = 0
  /\ mediaStreamRef = 0
  /\ processorRef = 0
  /\ sourceNodeRef = 0
  /\ sessionRef = 0
  /\ mediaRecorderRef = "null"
  /\ audioChunksRef = 0
  /\ currentInputTransRef = <<>>
  /\ isRecordingActiveRef = FALSE
  /\ reconnectTimeoutRef = 0
  /\ ctx = [i \in CallIds |-> "none"]
  /\ stream = [i \in CallIds |-> "none"]
  /\ node = [i \in CallIds |-> NoNode]
  /\ handle = [i \in CallIds |-> "none"]
  /\ promise = [i \in CallIds |-> "none"]
  /\ pc = [i \in CallIds |-> "unused"]
  /\ localStream = [i \in CallIds |-> 0]
  /\ closure = [i \in CallIds |-> NoClosure]
  /\ timers = [t \in TimerIds |-> NoTimer]
  /\ queue = [i \in CallIds |-> <<>>]
  /\ clock = 0
  /\ lastOp = "init"
  /\ lastUserOp = "none"
  /\ utt = UttReset
  /\ frame = NoFrame
  /\ attempt = 0
  /\ origin = [i \in CallIds |-> "none"]
  /\ flushed = NoFlush
  /\ exported = <<>>
  /\ selectedClient = NoClient
  /\ view = "dashboard"
  /\ descriptionPreview = "null"
  /\ pendingTranscript = <<>>
  /\ isGenerating = FALSE

Init ==
  /\ InitBase
  /\ variant = "App.tsx"
  /\ liveTranscript = <<>>
  /\ localStorage = <<>>
  /\ clients = <<>>

----------------------------------------------------------------------------
(* Transcript reconciler *)

Min(A) == CHOOSE x \in A : \A y \in A : x <= y

\* id: Date.now().toString() + Math.random(), an id no entry of the list has
FreshId(list) ==
  Min((1..(Len(list) + 1)) \ {list[k].id : k \in 1..Len(list)})

\* mutant: every update appends an entry
updateLiveTranscript_AlwaysAppend(prev, text, isFinal, now) ==
  Append(prev, [id |-> FreshId(prev), timestamp |-> now, speaker |-> "user",
                text |-> text, isPartial |-> ~isFinal])

\* mutant: an update rewrites the last entry, partial or not
updateLiveTranscript_RewriteLast(prev, text, isFinal, now) ==
  IF Len(prev) > 0
    THEN SubSeq(prev, 1, Len(prev) - 1)
           \o <<[prev[Len(prev)] EXCEPT !.text = text, !.isPartial = ~isFinal]>>
    ELSE Append(prev, [id |-> FreshId(prev), timestamp |-> now,
                       speaker |-> "user", text |-> text,
                       isPartial |-> ~isFinal])

\* mutant: an update of the partial entry puts the new entry in its place
updateLiveTranscript_Restamp(prev, text, isFinal, now) ==
  LET newEntry == [id |-> FreshId(prev), timestamp |-> now, speaker |-> "user",
                   text |-> text, isPartial |-> ~isFinal]
  IN IF Len(prev) > 0 /\ prev[Len(prev)].isPartial
       THEN SubSeq(prev, 1, Len(prev) - 1) \o <<newEntry>>
       ELSE Append(prev, newEntry)

updateLiveTranscript(prev, text, isFinal, now) ==
  LET newEntry == [id |-> FreshId(prev), timestamp |-> now, speaker |-> "user",
                   text |-> text, isPartial |-> ~isFinal]
      last == prev[Len(prev)]
  IN IF Len(prev) > 0 /\ last.isPartial
       THEN IF isFinal
              THEN SubSeq(prev, 1, Len(prev) - 1)
                     \o <<[last EXCEPT !.text = text, !.isPartial = FALSE]>>
              ELSE SubSeq(prev, 1, Len(prev) - 1)
                     \o <<[last EXCEPT !.text = text]>>
       ELSE Append(prev, newEntry)

----------------------------------------------------------------------------
(* Teardown *)

\* AudioNode.disconnect() on the node a ref holds
Disconnect(nodes, ref) ==
  IF ref = 0 THEN nodes ELSE [nodes EXCEPT ![ref].on = FALSE]

\* Session.close(): a handle that is connecting or open starts closing, the
\* transport delivers onclose later; closing an ended handle does nothing
CloseHandle(h, ref) ==
  IF ref # 0 /\ h[ref] \in {"connecting", "open"}
    THEN [h EXCEPT ![ref] = "closing"] ELSE h

\* mutant: cleanupSession finalizes the open entry and keeps the buffer
finalizeOpenEntry_KeepBuffer(s, now) ==
  IF s.currentInputTransRef # <<>>
    THEN [s EXCEPT !.liveTranscript =
                      updateLiveTranscript(s.liveTranscript,
                                           s.currentInputTransRef, TRUE, now)]
    ELSE s

\* if (currentInputTransRef.current) { updateLiveTranscript(.., true); .. = '' }
finalizeOpenEntry(s, now) ==
  IF s.currentInputTransRef # <<>>
    THEN [s EXCEPT !.liveTranscript =
                      updateLiveTranscript(s.liveTranscript,
                                           s.currentInputTransRef, TRUE, now),
                   !.currentInputTransRef = <<>>]
    ELSE s

\* what a ref holds after cleanupSession used it: src/App.tsx sets it to
\* null, src/unnamed/part_001 leaves it
keepRef(s, ref) == IF s.variant = "part_001" THEN ref ELSE 0

\* sourceNodeRef / processorRef: disconnect and null
disconnectNodes(s) ==
  [s EXCEPT !.node = Disconnect(Disconnect(s.node, s.sourceNodeRef),
                                s.processorRef),
            !.sourceNodeRef = keepRef(s, s.sourceNodeRef),
            !.processorRef = keepRef(s, s.processorRef)]

\* The teardown when the calls in fails throw.  A call inside try {} catch {}
\* has no effect then and the handler goes on; a call outside of one leaves
\* the handler at once.
TeardownSteps ==
  {"recorder", "source", "processor", "tracks", "context", "session", "timer"}

raise(s) == [s EXCEPT !.thrown = TRUE]

\* try { sourceNodeRef.current.disconnect() } catch (e) {}, and the processor
disconnectNodesF(s, fails) ==
  IF s.thrown THEN s
  ELSE [s EXCEPT
          !.node = Disconnect(s.node, IF "processor" \in fails
                                        THEN 0 ELSE s.processorRef),
          !.sourceNodeRef = 0,
          !.processorRef = 0]

\* track.stop() of every track, outside of any try
stopTracksF(s, fails) ==
  IF s.thrown \/ s.mediaStreamRef = 0 THEN s
  ELSE IF "tracks" \in fails THEN raise(s)
  ELSE [s EXCEPT !.stream[s.mediaStreamRef] = "stopped", !.mediaStreamRef = 0]

\* mediaRecorderRef.current.stop(), outside of any try
stopRecorderF(s, fails) ==
  IF s.thrown \/ s.mediaRecorderRef # "recording" THEN s
  ELSE IF "recorder" \in fails THEN raise(s)
  ELSE [s EXCEPT !.mediaRecorderRef = "inactive"]

\* try { inputAudioContextRef.current.close() } catch (e) {}
closeAudioContextF(s, fails) ==
  IF s.thrown \/ s.inputAudioContextRef = 0 THEN s
  ELSE [s EXCEPT !.ctx[s.inputAudioContextRef] =
                    IF "context" \in fails THEN @ ELSE "closed",
                 !.inputAudioContextRef = 0]

\* try { sessionRef.current.close() } catch (e) {}
closeSessionF(s, fails) ==
  IF s.thrown THEN s
  ELSE [s EXCEPT !.handle = IF "session" \in fails
                              THEN @ ELSE CloseHandle(s.handle, s.sessionRef),
                 !.sessionRef = 0]

\* clearTimeout(reconnectTimeoutRef.current), outside of any try
clearReconnectTimeoutF(s, fails) ==
  IF s.thrown \/ s.reconnectTimeoutRef = 0 THEN s
  ELSE IF "timer" \in fails THEN raise(s)
  ELSE [s EXCEPT !.timers[s.reconnectTimeoutRef] = NoTimer,
                 !.reconnectTimeoutRef = 0]

\* the statements of a handler after a call that may have thrown
unlessThrown(s, t) == IF s.thrown THEN s ELSE t

\* mutant: the tracks and the recorder are stopped by every teardown
stopCapture_Always(s, fullStop) ==
  [s EXCEPT
     !.stream = IF s.mediaStreamRef # 0
                  THEN [s.stream EXCEPT ![s.mediaStreamRef] = "stopped"]
                  ELSE s.stream,
     !.mediaStreamRef = 0,
     !.mediaRecorderRef = IF s.mediaRecorderRef = "recording"
                            THEN "inactive" ELSE s.mediaRecorderRef]

\* if (fullStop): stop the microphone tracks and the recorder
stopCapture(s, fullStop) ==
  IF fullStop
    THEN [s EXCEPT
           !.stream = IF s.mediaStreamRef # 0
                        THEN [s.stream EXCEPT ![s.mediaStreamRef] = "stopped"]
                        ELSE s.stream,
           !.mediaStreamRef = keepRef(s, s.mediaStreamRef),
           !.mediaRecorderRef = IF s.mediaRecorderRef = "recording"
                                  THEN "inactive" ELSE s.mediaRecorderRef]
    ELSE s

closeAudioContext(s) ==
  [s EXCEPT
     !.ctx = IF s.inputAudioContextRef # 0
               THEN [s.ctx EXCEPT ![s.inputAudioContextRef] = "closed"]
               ELSE s.ctx,
     !.inputAudioContextRef = keepRef(s, s.inputAudioContextRef)]

closeSession(s) ==
  [s EXCEPT !.handle = CloseHandle(s.handle, s.sessionRef),
            !.sessionRef = keepRef(s, s.sessionRef)]

clearReconnectTimeout(s) ==
  [s EXCEPT
     !.timers = IF s.reconnectTimeoutRef # 0
                  THEN [s.timers EXCEPT ![s.reconnectTimeoutRef] = NoTimer]
                  ELSE s.timers,
     !.reconnectTimeoutRef = keepRef(s, s.reconnectTimeoutRef)]

cleanupSession(s, fullStop, now) ==
  clearReconnectTimeout(
    closeSession(
      closeAudioContext(
        stopCapture(disconnectNodes(finalizeOpenEntry(s, now)), fullStop))))

finalizeRecording(s) ==
  IF s.audioChunksRef > 0 THEN [s EXCEPT !.audioBlob = s.audioChunksRef] ELSE s

\* mutant: stopUserAction does not clear isRecordingActiveRef
markStopped_NoLatch(s) ==
  [s EXCEPT !.mediaRecorderRef = IF s.mediaRecorderRef = "recording"
                                   THEN "inactive" ELSE s.mediaRecorderRef]

\* isRecordingActiveRef.current = false; mediaRecorderRef.current.stop()
markStopped(s) ==
  [s EXCEPT !.isRecordingActiveRef = FALSE,
            !.mediaRecorderRef = IF s.mediaRecorderRef = "recording"
                                   THEN "inactive" ELSE s.mediaRecorderRef]

setStatus(s, st) == [s EXCEPT !.status = st]

\* cleanupSession(true) when the calls in fails throw
cleanupSessionF(s, now, fails) ==
  clearReconnectTimeoutF(
    closeSessionF(
      closeAudioContextF(
        stopRecorderF(
          stopTracksF(
            disconnectNodesF(unlessThrown(s, finalizeOpenEntry(s, now)), fails),
            fails),
          fails),
        fails),
      fails),
    fails)

\* setStatus(DISCONNECTED); finalizeRecording()
endStop(s) == unlessThrown(s, finalizeRecording(setStatus(s, DISCONNECTED)))

\* stopUserAction when the calls in fails throw
stopUserActionF(s, now, fails) ==
  endStop(
    cleanupSessionF(
      stopRecorderF([s EXCEPT !.isRecordingActiveRef = FALSE], fails),
      now, fails))

setErrorMsg(s, msg) == [s EXCEPT !.errorMsg = msg]

stopUserAction(s, now) ==
  finalizeRecording(
    setStatus(cleanupSession(markStopped(s), TRUE, now), DISCONNECTED))

----------------------------------------------------------------------------
(* startSession *)

\* setTimeout(() => startSession(), delay): the timer keeps the closure of the
\* startSession that registered the callback
FreshTimer(s) ==
  Min({t \in TimerIds : s.timers[t] = NoTimer /\ t # s.reconnectTimeoutRef})

armTimer(s, t, delay, cap) ==
  [s EXCEPT !.timers[t] = [delay |-> delay, cap |-> cap],
            !.reconnectTimeoutRef = t]

setReconnectTimeout(s, delay, cap) == armTimer(s, FreshTimer(s), delay, cap)

\* ai.live.connect(...) up to "sessionRef.current = await sessionPromise"
connectLive(s, i, ok) ==
  [s EXCEPT !.handle[i] = IF ok THEN "connecting" ELSE "none",
            !.promise[i] = IF ok THEN "pending" ELSE "rejecting",
            !.pc[i] = "awaitConnect"]

\* "Start Local Recording", then connect
afterMicrophone(s, i, st, ok) ==
  connectLive([s EXCEPT !.localStream[i] = st,
                        !.mediaRecorderRef =
                           IF s.mediaRecorderRef \in {"null", "inactive"}
                             THEN "recording" ELSE s.mediaRecorderRef],
              i, ok)

\* "2. Get Microphone Access"
getMicrophone(s, i, ok) ==
  IF s.mediaStreamRef = 0 \/ s.stream[s.mediaStreamRef] # "live"
    THEN [s EXCEPT !.pc[i] = "awaitMic"]
    ELSE afterMicrophone(s, i, s.mediaStreamRef, ok)

\* new AudioContext()
newAudioContext(s, i, ok) ==
  getMicrophone([s EXCEPT !.ctx[i] = "running", !.inputAudioContextRef = i], i, ok)

\* "1. Initialize Audio Context"
initAudioContext(s, i, ok) ==
  IF s.inputAudioContextRef # 0
    THEN IF s.ctx[s.inputAudioContextRef] = "running"
           THEN [s EXCEPT !.ctx[s.inputAudioContextRef] = "closed",
                          !.pc[i] = "awaitClose"]
           ELSE [s EXCEPT !.pc[i] = "closeRejected"]
    ELSE newAudioContext(s, i, ok)

\* mutant: the startSession a timer runs tests the current status
timerStatus_Live(cap, current) == current

\* setTimeout(() => { startSession(); }, ..): the status the startSession run
\* by a timer tests is the one of the render its closure comes from
timerStatus(cap, current) == cap.status

\* mutant: the guard forgets the Connected status
startGuard_OnlyConnecting(cap) == cap.status # CONNECTING

\* the guard of startSession, on the status its closure holds
startGuard(cap) == cap.status \notin {CONNECTING, CONNECTED}

startSession(s, i, cap, ok) ==
  IF ~startGuard(cap) THEN s
  ELSE initAudioContext(
         [s EXCEPT !.errorMsg = "null",
                   !.status = CONNECTING,
                   !.isRecordingActiveRef = TRUE,
                   !.closure[i] = cap,
                   !.audioBlob = IF cap.fresh THEN 0 ELSE s.audioBlob,
                   !.audioChunksRef = IF cap.fresh THEN 0 ELSE s.audioChunksRef],
         i, ok)

\* catch (err) of startSession
catchStart(s, now) == stopUserAction(setErrorMsg(s, "connect"), now)

----------------------------------------------------------------------------
(* Transport callbacks of call i *)

\* onopen after setStatus(CONNECTED): wire the capture pipeline
wireCapture(s, i) ==
  IF s.inputAudioContextRef = 0 \/ s.localStream[i] = 0
    THEN s
    ELSE [s EXCEPT !.node[i] = [ctx |-> s.inputAudioContextRef,
                                stream |-> s.localStream[i], on |-> TRUE],
                   !.sourceNodeRef = i,
                   !.processorRef = i]

onopen(s, i) == wireCapture(setStatus(s, CONNECTED), i)

\* mutant: the delta overwrites the buffer (= for +=)
onInputTranscription_Overwrite(s, text, now) ==
  IF text # <<>>
    THEN [s EXCEPT
            !.currentInputTransRef = text,
            !.liveTranscript =
               updateLiveTranscript(s.liveTranscript, text, FALSE, now)]
    ELSE s

\* session.sendRealtimeInput({ media: pcmBlob }): a frame reaches the server
\* over an open handle; a closing or closed socket discards it
sendRealtimeInput(h, throws) ==
  IF throws THEN "failed"
  ELSE IF h = "open" THEN "delivered" ELSE "discarded"

\* what became of the frame of a block the processor of call i was handed:
\* on a promise that has not resolved the then-callback waits
sentFrame(s, i, throws) ==
  [call |-> i,
   outcome |-> IF s.promise[i] = "resolved"
                 THEN sendRealtimeInput(s.handle[i], throws)
                 ELSE "queued"]

\* sessionPromise.then(callback): on a resolved promise the callback runs at
\* once, on a pending one it is registered behind the callbacks of the
\* earlier frames (frames are numbered in capture order)
thenSend(s, i) ==
  IF s.promise[i] = "resolved"
    THEN s
    ELSE [s EXCEPT !.queue[i] = Append(@, Len(@) + 1)]

\* mutant: the resolution runs only the callback registered last
thenCallbacks_LatestOnly(q) == IF q = <<>> THEN q ELSE <<q[Len(q)]>>

\* the callbacks the resolution of the promise runs: every registered one,
\* once, in the order of registration
thenCallbacks(q) == q

\* the sends that run when the promise of call i resolves
flushOf(s, i) ==
  IF s.queue[i] = <<>>
    THEN NoFlush
    ELSE [call |-> i, frames |-> thenCallbacks(s.queue[i]),
          outcome |-> sendRealtimeInput(s.handle[i], FALSE)]

\* mutant: a failing send throws into the audio callback, which ends the
\* processing of blocks
onaudioprocess_Throwing(s, i, throws) ==
  IF throws THEN [s EXCEPT !.node[i].on = FALSE] ELSE thenSend(s, i)

\* processor.onaudioprocess: sessionPromise.then(session => session.send..).
\* The send runs inside the then-callback: what it throws rejects the promise
\* then() returned and reaches no handler, so the callback leaves the session
\* as it is.
onaudioprocess(s, i, throws) == thenSend(s, i)

\* mutant: the open entry is given the delta, not the accumulated text
onInputTranscription_DeltaOnly(s, text, now) ==
  IF text # <<>>
    THEN [s EXCEPT
            !.currentInputTransRef = s.currentInputTransRef \o text,
            !.liveTranscript =
               updateLiveTranscript(s.liveTranscript, text, FALSE, now)]
    ELSE s

\* if (content?.inputTranscription) ...
onInputTranscription(s, text, now) ==
  IF text # <<>>
    THEN [s EXCEPT
            !.currentInputTransRef = s.currentInputTransRef \o text,
            !.liveTranscript =
               updateLiveTranscript(s.liveTranscript,
                                    s.currentInputTransRef \o text, FALSE, now)]
    ELSE s

\* mutant: the turn-complete signal empties the buffer and leaves the entry
onTurnComplete_KeepPartial(s, turnComplete, now) ==
  IF turnComplete /\ s.currentInputTransRef # <<>>
    THEN [s EXCEPT !.currentInputTransRef = <<>>]
    ELSE s

\* if (content?.turnComplete) ...
onTurnComplete(s, turnComplete, now) ==
  IF turnComplete /\ s.currentInputTransRef # <<>>
    THEN [s EXCEPT !.liveTranscript =
                      updateLiveTranscript(s.liveTranscript,
                                           s.currentInputTransRef, TRUE, now),
                   !.currentInputTransRef = <<>>]
    ELSE s

onmessage(s, text, turnComplete, now) ==
  onTurnComplete(onInputTranscription(s, text, now), turnComplete, now)

\* onclose after cleanupSession(false)
reconnectOrEnd(s, i) ==
  IF s.isRecordingActiveRef
    THEN setReconnectTimeout(setStatus(s, CONNECTING), 500, s.closure[i])
    ELSE finalizeRecording(setStatus(s, DISCONNECTED))

onclose(s, i, now) == reconnectOrEnd(cleanupSession(s, FALSE, now), i)

onerror(s, i, now) ==
  IF s.isRecordingActiveRef
    THEN setReconnectTimeout(cleanupSession(s, FALSE, now), 1000, s.closure[i])
    ELSE stopUserAction(setErrorMsg(s, "session"), now)

clearCurrentTranscript(s) ==
  [s EXCEPT !.liveTranscript = <<>>, !.audioBlob = 0, !.audioChunksRef = 0]

----------------------------------------------------------------------------
(* Actions: one per handler, callback or continuation.  lastOp names the    *)
(* handler that ran last, lastUserOp the last start or stop of the user.    *)

FreeCalls == {i \in CallIds : pc[i] = "unused"}
NextCall == IF FreeCalls = {} THEN 0 ELSE Min(FreeCalls)
PendingTimers == {t \in TimerIds : timers[t] # NoTimer}

\* history of the reconnect cycle: the timer-driven startSession calls since
\* the last onopen or user start
AttemptAfter(op) ==
  CASE op = "onopen" -> 0
    [] op = "startSession.user" /\ pc' # pc -> 0
    [] op = "startSession.timer" /\ pc' # pc -> attempt + 1
    [] OTHER -> attempt

\* history of the calls: who ran the startSession of call i, the user or a
\* reconnect timer, and whether a call of the user ended in its catch block
\* since the user started last
OriginAfter(op) ==
  [i \in CallIds |->
     IF pc[i] = "unused" /\ pc'[i] # "unused"
       THEN IF op = "startSession.user" THEN "user" ELSE "timer"
     ELSE IF op = "startSession.catch" /\ pc'[i] # pc[i] /\ origin[i] = "user"
       THEN "user.failed"
     ELSE IF op = "startSession.user" /\ pc' # pc /\ origin[i] = "user.failed"
       THEN "user"
     ELSE origin[i]]

NoteBase(op, userOp, u) ==
  /\ lastOp' = op
  /\ lastUserOp' = userOp
  /\ utt' = u
  /\ clock' = clock
  /\ frame' = NoFrame
  /\ attempt' = AttemptAfter(op)
  /\ origin' = OriginAfter(op)

Note(op, userOp, u) ==
  /\ NoteBase(op, userOp, u)
  /\ flushed' = NoFlush
  /\ UNCHANGED archiveVars

\* the render the user clicks in holds the current status and transcript
RenderClosure == [status |-> status, fresh |-> liveTranscript = <<>>]

\* the closure of the startSession a timer runs
TimerClosure(t) ==
  [status |-> timerStatus(timers[t].cap, status), fresh |-> timers[t].cap.fresh]

\* onClick={startSession}; oks: the outcomes of connect() (TRUE: a handle)
StartUser(oks) ==
  /\ startGuard(RenderClosure) => NextCall # 0
  /\ \E ok \in oks : Commit(startSession(S, NextCall, RenderClosure, ok))
  /\ Note("startSession.user",
          IF startGuard(RenderClosure) THEN "start" ELSE lastUserOp, utt)

\* the reconnect timer fires: startSession() of the closure that set it
TimerFires(t, oks) ==
  /\ timers[t] # NoTimer
  /\ startGuard(TimerClosure(t)) => NextCall # 0
  /\ \E ok \in oks :
       Commit(startSession([S EXCEPT !.timers[t] = NoTimer], NextCall,
                           TimerClosure(t), ok))
  /\ Note("startSession.timer", lastUserOp, utt)

\* await inputAudioContextRef.current.close() resolves
AudioContextClosed(i) ==
  /\ pc[i] = "awaitClose"
  /\ \E ok \in BOOLEAN : Commit(newAudioContext(S, i, ok))
  /\ Note("startSession.closed", lastUserOp, utt)

\* await inputAudioContextRef.current.close() rejects: the context the ref
\* holds is closed already (InvalidStateError)
CloseRejected(i) ==
  /\ pc[i] = "closeRejected"
  /\ Commit(catchStart([S EXCEPT !.pc[i] = "done"], clock))
  /\ Note("startSession.catch", lastUserOp, UttReset)

\* await navigator.mediaDevices.getUserMedia(...) resolves
MicGrants(i, oks) ==
  /\ pc[i] = "awaitMic"
  /\ \E ok \in oks :
       Commit(afterMicrophone([S EXCEPT !.stream[i] = "live",
                                        !.mediaStreamRef = i], i, i, ok))
  /\ Note("startSession.mic", lastUserOp, utt)

\* await navigator.mediaDevices.getUserMedia(...) rejects
MicDenied(i) ==
  /\ pc[i] = "awaitMic"
  /\ Commit(catchStart([S EXCEPT !.pc[i] = "done"], clock))
  /\ Note("startSession.catch", lastUserOp, UttReset)

\* sessionRef.current = await sessionPromise
ConnectResolved(i) ==
  /\ promise[i] = "ready"
  /\ Commit([S EXCEPT !.promise[i] = "resolved", !.pc[i] = "done",
                      !.sessionRef = i, !.queue[i] = <<>>])
  /\ NoteBase("startSession.resolved", lastUserOp, utt)
  /\ flushed' = flushOf(S, i)
  /\ UNCHANGED archiveVars

\* await sessionPromise rejects
ConnectRejected(i) ==
  /\ promise[i] = "rejecting"
  /\ Commit(catchStart([S EXCEPT !.promise[i] = "rejected", !.pc[i] = "done"],
                       clock))
  /\ Note("startSession.catch", lastUserOp, UttReset)

OnOpen(i) ==
  /\ handle[i] = "connecting"
  /\ Commit(onopen([S EXCEPT !.handle[i] = "open", !.promise[i] = "ready"], i))
  /\ Note("onopen", lastUserOp, utt)

\* the deltas of the utterance this message belongs to, with its own
UttAfter(text, turnComplete) ==
  [text |-> (IF utt.done THEN <<>> ELSE utt.text) \o text,
   before |-> IF utt.done THEN Len(liveTranscript) ELSE utt.before,
   done |-> turnComplete]

OnMessageOf(i, deltas, maxText, maxEntries) ==
  /\ handle[i] \in {"open", "closing"}
  /\ IF Len(liveTranscript) < maxEntries THEN TRUE
       ELSE liveTranscript[Len(liveTranscript)].isPartial
  /\ \E text \in deltas, turnComplete \in BOOLEAN :
       /\ Len(currentInputTransRef) + Len(text) <= maxText
       /\ Commit(onmessage(S, text, turnComplete, clock))
       /\ Note(IF turnComplete THEN "onmessage.turnComplete" ELSE "onmessage",
               lastUserOp, UttAfter(text, turnComplete))

OnMessage(i) == OnMessageOf(i, LifeDeltas, LifeText, LifeEntries)

OnMessageWide(i) == OnMessageOf(i, Deltas, MaxText, MaxEntries)

OnClose(i) ==
  /\ handle[i] \in {"connecting", "open", "closing", "failed"}
  /\ Commit(onclose([S EXCEPT !.handle[i] = "closed"], i, clock))
  /\ Note("onclose", lastUserOp, UttReset)

OnError(i) ==
  /\ handle[i] \in {"connecting", "open"}
  /\ Commit(onerror([S EXCEPT !.handle[i] = "failed"], i, clock))
  /\ Note("onerror", lastUserOp, UttReset)

\* the processors that are handed audio blocks
RunningProcessors ==
  {i \in CallIds : node[i].on /\ ctx[node[i].ctx] = "running"}

\* the audio context hands a block to the processor of call i, which is
\* connected to the destination of a running context
AudioProcess(i) ==
  /\ i \in RunningProcessors
  /\ promise[i] # "resolved" => Len(queue[i]) < MaxQueued
  /\ \E throws \in BOOLEAN :
       /\ Commit(onaudioprocess(S, i, throws))
       /\ frame' = sentFrame(S, i, throws)
  /\ lastOp' = "onaudioprocess"
  /\ flushed' = NoFlush
  /\ UNCHANGED <<clock, lastUserOp, utt, attempt, origin, archiveVars>>

\* A keep-alive window (30 s) goes by without an audio block and without a
\* callback: no processor runs (one would be handed a block every 4096
\* samples) and no reconnect timer (500 or 1000 ms) is pending.  No handler of
\* the program runs on it: onopen starts no timer but the processor.
KeepAliveWindow ==
  /\ RunningProcessors = {}
  /\ PendingTimers = {}
  /\ lastOp # "keepAliveWindow"
  /\ lastOp' = "keepAliveWindow"
  /\ frame' = NoFrame
  /\ flushed' = NoFlush
  /\ UNCHANGED <<progVars, clock, lastUserOp, utt, attempt, origin,
                 archiveVars>>

\* onClick={stopUserAction}
UserStop ==
  /\ Commit(stopUserAction(S, clock))
  /\ Note(IF lastOp \in {"stopUserAction", "stopUserAction.again"}
            THEN "stopUserAction.again" ELSE "stopUserAction",
          IF PendingTimers # {} \/ lastUserOp = "stop.timer"
            THEN "stop.timer" ELSE "stop",
          UttReset)

\* the calls of the teardown that have something to act on
StepDue(x) ==
  CASE x = "recorder" -> mediaRecorderRef = "recording"
    [] x = "source" -> sourceNodeRef # 0
    [] x = "processor" -> processorRef # 0
    [] x = "tracks" -> mediaStreamRef # 0
    [] x = "context" -> inputAudioContextRef # 0
    [] x = "session" -> sessionRef # 0
    [] x = "timer" -> reconnectTimeoutRef # 0

FailOp(x) ==
  CASE x = "recorder" -> "stopUserAction.fails.recorder"
    [] x = "source" -> "stopUserAction.fails.source"
    [] x = "processor" -> "stopUserAction.fails.processor"
    [] x = "tracks" -> "stopUserAction.fails.tracks"
    [] x = "context" -> "stopUserAction.fails.context"
    [] x = "session" -> "stopUserAction.fails.session"
    [] x = "timer" -> "stopUserAction.fails.timer"

\* onClick={stopUserAction}, and the call x of the teardown throws
UserStopFails(x) ==
  /\ StepDue(x)
  /\ Commit(stopUserActionF(S, clock, {x}))
  /\ Note(FailOp(x), "stop", UttReset)

\* onClick={clearCurrentTranscript}, live tab, confirmed
UserClear ==
  /\ liveTranscript # <<>>
  /\ Commit(clearCurrentTranscript(S))
  /\ Note("clearCurrentTranscript", lastUserOp, [utt EXCEPT !.before = 0])

\* the wall clock formatTime() reads moves on to the next second
Tick ==
  /\ clock < MaxClock
  /\ clock' = clock + 1
  /\ lastOp' = "tick"
  /\ frame' = NoFrame
  /\ flushed' = NoFlush
  /\ UNCHANGED <<progVars, lastUserOp, utt, attempt, origin, archiveVars>>

UserStart == StartUser(BOOLEAN)
TimerFire(t) == TimerFires(t, BOOLEAN)
MicGranted(i) == MicGrants(i, BOOLEAN)

\* The session lifecycle, with one-symbol utterances
Next ==
  \/ UserStart
  \/ UserStop
  \/ UserClear
  \/ \E t \in TimerIds : TimerFire(t)
  \/ \E i \in CallIds : MicGranted(i)
  \/ \E i \in CallIds : MicDenied(i)
  \/ \E i \in CallIds : ConnectResolved(i)
  \/ \E i \in CallIds : ConnectRejected(i)
  \/ \E i \in CallIds : OnOpen(i)
  \/ \E i \in CallIds : OnMessage(i)
  \/ \E i \in CallIds : OnClose(i)
  \/ \E i \in CallIds : OnError(i)
  \/ \E i \in CallIds : AudioProcess(i)
  \/ KeepAliveWindow

Spec == Init /\ [][Next]_vars

\* The transport closes an open session on its own, while a call is left for
\* the reconnect it causes
UnexpectedClose(i) ==
  /\ handle[i] = "open"
  /\ FreeCalls # {}
  /\ OnClose(i)

\* Auto-reconnect: the user starts and never stops, the microphone is granted,
\* connect() returns a handle that opens, the transport drops open sessions
NextReconnect ==
  \/ StartUser({TRUE})
  \/ \E t \in TimerIds : TimerFires(t, {TRUE})
  \/ \E i \in CallIds : MicGrants(i, {TRUE})
  \/ \E i \in CallIds : ConnectResolved(i)
  \/ \E i \in CallIds : OnOpen(i)
  \/ \E i \in CallIds : OnMessage(i)
  \/ \E i \in CallIds : UnexpectedClose(i)
  \/ UserClear

\* timers fire, getUserMedia settles, the transport opens what it accepted
SpecReconnect ==
  /\ Init
  /\ [][NextReconnect]_vars
  /\ WF_vars(\E t \in TimerIds : TimerFires(t, {TRUE}))
  /\ WF_vars(\E i \in CallIds : MicGrants(i, {TRUE}))
  /\ WF_vars(\E i \in CallIds : OnOpen(i))

\* the first start of the user
FirstStart ==
  /\ pc[1] = "unused"
  /\ StartUser({TRUE})

\* The reconciler: utterances of several deltas, over the session of one user
\* start, which is stopped, or dropped and reconnected by the timer
NextReconciler ==
  \/ FirstStart
  \/ UserStop
  \/ UserClear
  \/ Tick
  \/ \E t \in TimerIds : TimerFires(t, {TRUE})
  \/ \E i \in CallIds : MicGrants(i, {TRUE})
  \/ \E i \in CallIds : ConnectResolved(i)
  \/ \E i \in CallIds : OnOpen(i)
  \/ \E i \in CallIds : OnMessageWide(i)
  \/ \E i \in CallIds : OnClose(i)

SpecReconciler == Init /\ [][NextReconciler]_vars

\* The teardown: the session of one user start, dropped and reconnected, and
\* a stop in which one call of the teardown throws
NextTeardown ==
  \/ FirstStart
  \/ UserStop
  \/ \E x \in TeardownSteps : UserStopFails(x)
  \/ \E t \in TimerIds : TimerFires(t, {TRUE})
  \/ \E i \in CallIds : MicGrants(i, {TRUE})
  \/ \E i \in CallIds : ConnectResolved(i)
  \/ \E i \in CallIds : OnOpen(i)
  \/ \E i \in CallIds : OnMessage(i)
  \/ \E i \in CallIds : OnClose(i)
  \/ \E i \in CallIds : OnError(i)

SpecTeardown == Init /\ [][NextTeardown]_vars

----------------------------------------------------------------------------
(* Properties of the session lifecycle *)

\* handles created by connect() and not yet closed
LiveHandles == {i \in CallIds : handle[i] \in {"connecting", "open"}}

\* calls of connect() so far
ConnectCalls == {i \in CallIds : promise[i] # "none"}

\* the user stopped and has not started again since
UserStopped == lastUserOp \in {"stop", "stop.timer"}

\* everything startSession can touch, the timer table aside
sessionVars == <<status, errorMsg, liveTranscript, audioBlob,
  inputAudioContextRef, mediaStreamRef, processorRef, sourceNodeRef,
  sessionRef, mediaRecorderRef, audioChunksRef, currentInputTransRef,
  isRecordingActiveRef, reconnectTimeoutRef,
  ctx, stream, node, handle, promise, pc, localStream, closure>>

\* startSession never waits for an audio context to close: cleanupSession nulls
\* inputAudioContextRef, so step 1 of startSession always finds it null
StartNeverAwaitsClose == \A i \in CallIds : pc[i] \notin {"awaitClose", "closeRejected"}

\* the reconnect timer reconnectTimeoutRef holds is the only one pending
OnlyTrackedTimerPending == PendingTimers \subseteq {reconnectTimeoutRef}

\* C1 (as stated): whenever the status is Connecting or Connected, a call of
\* startSession, by a user click or by a fired reconnect timer, calls connect()
\* zero times, creates no handle and changes no state.
C1_StartIsNoOpWhenActive ==
  [][(lastOp' \in {"startSession.user", "startSession.timer"}
        /\ status \in {CONNECTING, CONNECTED})
       => (ConnectCalls' = ConnectCalls /\ UNCHANGED sessionVars)]_vars

\* C1 (amended): whenever the status is Connecting or Connected, a call of
\* startSession by a user click calls connect() zero times, creates no handle
\* and changes no state.
C1_UserStartIsNoOpWhenActive ==
  [][(lastOp' = "startSession.user" /\ status \in {CONNECTING, CONNECTED})
       => (ConnectCalls' = ConnectCalls /\ UNCHANGED progVars)]_vars

\* a user click on start that found the status Connected
C1_Witness == lastOp = "startSession.user" /\ status = CONNECTED

\* C2: at most one transport handle created by connect() and not yet closed
\* exists in every reachable state.
C2_AtMostOneLiveHandle == Cardinality(LiveHandles) <= 1

\* C3: after a user stop the status is Disconnected and stays so until the
\* next user start.
C3_StoppedStaysDisconnected == UserStopped => status = DISCONNECTED

\* C4: after a user stop made while a reconnect timer was pending, no timer is
\* pending, the status is Disconnected and connect() is not called, until the
\* user starts again.
C4_StopCancelsReconnect ==
  [][lastUserOp' = "stop.timer"
       => /\ PendingTimers' = {}
          /\ status' = DISCONNECTED
          /\ lastUserOp = "stop.timer" => ConnectCalls' = ConnectCalls]_vars

\* C5: an onclose or onerror delivered while the status is Connected and the
\* session is not manually stopped sets the status to Connecting and leaves a
\* reconnect timer pending.
C5_DropReconnects ==
  [][(lastOp' \in {"onclose", "onerror"} /\ status = CONNECTED
        /\ isRecordingActiveRef)
       => (status' = CONNECTING /\ PendingTimers' # {})]_vars

Quiescent == \A i \in CallIds : pc[i] \in {"unused", "done"}

\* C8: after a user stop, once every pending continuation has run, no
\* microphone stream is live, no audio context is open and no handle is open.
C8_StopReleasesEverything ==
  (UserStopped /\ Quiescent)
    => \A i \in CallIds : /\ stream[i] # "live"
                          /\ ctx[i] # "running"
                          /\ handle[i] \notin {"connecting", "open"}

\* C9: a second stopUserAction right after a first changes nothing.
C9_StopIsIdempotent ==
  [][lastOp' = "stopUserAction.again" => UNCHANGED progVars]_vars

\* two stops in a row, the first of which tore a session down
C9_Witness ==
  /\ lastOp = "stopUserAction.again"
  /\ \E i \in CallIds : ctx[i] = "closed"

\* the status is Connected and the capture pipeline of an open handle runs
Reconnected ==
  /\ status = CONNECTED
  /\ \E i \in CallIds :
       /\ handle[i] = "open"
       /\ node[i].on
       /\ processorRef = i
       /\ ctx[node[i].ctx] = "running"
       /\ stream[node[i].stream] = "live"

\* C6: when the transport closes an open session while recording is active,
\* the user never stops, the timer fires and the next connect() opens, the
\* status becomes Connected again with the capture pipeline wired.
C6_ReconnectSucceeds == (lastOp = "onclose") ~> Reconnected

\* a session started by the reconnect timer is connected and wired
C6_Witness ==
  /\ Reconnected
  /\ handle[1] = "closed"
  /\ \E i \in CallIds : i > 1 /\ handle[i] = "open" /\ node[i].on

----------------------------------------------------------------------------
(* Properties of the reconciler *)

LastEntry == liveTranscript[Len(liveTranscript)]

\* C10 (as stated): after the turn-complete signal that ends a sequence of
\* deltas, the transcript holds exactly one entry more than before the
\* sequence, its text is the concatenation of the deltas and it is final.
C10_TurnAddsOneEntry ==
  lastOp = "onmessage.turnComplete"
    => /\ Len(liveTranscript) = utt.before + 1
       /\ LastEntry.text = utt.text
       /\ ~LastEntry.isPartial

\* C10 (amended): the same for the sequences that carry some text; after a
\* sequence of deltas without any text the transcript holds no entry more.
C10_TurnWithTextAddsOneEntry ==
  lastOp = "onmessage.turnComplete"
    => IF utt.text # <<>>
         THEN /\ Len(liveTranscript) = utt.before + 1
              /\ LastEntry.text = utt.text
              /\ ~LastEntry.isPartial
         ELSE Len(liveTranscript) = utt.before

\* an utterance of the deltas a, b ended by turn-complete
C10_Witness ==
  /\ lastOp = "onmessage.turnComplete"
  /\ utt.text = <<"a", "b">>
  /\ Len(liveTranscript) = 2
  /\ LastEntry.text = <<"a", "b">>

\* the entries of the live transcript that are partial
PartialEntries ==
  {k \in 1..Len(liveTranscript) : liveTranscript[k].isPartial}

\* C11: in every reachable state at most one entry of the live transcript is
\* partial, and if one is, it is the last entry.
C11_OnlyLastEntryPartial == PartialEntries \subseteq {Len(liveTranscript)}

\* a partial entry is open after a final one
C11_Witness ==
  /\ Len(liveTranscript) = 2
  /\ PartialEntries = {2}
  /\ liveTranscript[2].text = <<"a", "b">>

\* C12: an entry that is final keeps its text and stays final in every step
\* that keeps it in the list (entries are told apart by their id).
C12_FinalIsOneWay ==
  [][\A k \in 1..Len(liveTranscript) : \A j \in 1..Len(liveTranscript') :
       (~liveTranscript[k].isPartial
          /\ liveTranscript'[j].id = liveTranscript[k].id)
         => (~liveTranscript'[j].isPartial
               /\ liveTranscript'[j].text = liveTranscript[k].text)]_vars

\* a final entry has seen a later utterance end, in a reconnected session
C12_Witness ==
  /\ Len(liveTranscript) = 2
  /\ PartialEntries = {}
  /\ liveTranscript[1].text # liveTranscript[2].text
  /\ lastOp = "onmessage.turnComplete"
  /\ handle[1] = "closed"

\* C13: whenever the status is Disconnected no entry of the live transcript
\* is partial, also when a message of the closing session is delivered after
\* the teardown ran.
C13_NoDanglingPartial == status = DISCONNECTED => PartialEntries = {}

----------------------------------------------------------------------------
(* Properties of the send path *)

\* a teardown ran after call i began: cleanupSession closed the audio context
\* the call created
TornDown(i) == ctx[i] = "closed"

\* C14: no audio frame is delivered to the handle of a session that was
\* stopped or torn down: a frame is delivered only while the user has not
\* stopped and only to a call no teardown has run on.
C14_NoFrameAfterTeardown ==
  frame.outcome = "delivered" => (~UserStopped /\ ~TornDown(frame.call))

----------------------------------------------------------------------------
(* Properties of the reconnect policy *)

\* the delay of the backoff policy before reconnect attempt n:
\* min(maxDelay, baseDelay * multiplier^n) with 30000 ms, 1000 ms and 2
Backoff(n) == IF 1000 * 2^n < 30000 THEN 1000 * 2^n ELSE 30000

\* the values of maxAttempts, the consecutive failed reconnects after which
\* the policy gives up: a configuration, 5 by reference
MaxAttemptsChoices == 1..5

\* C15: the delay of a pending reconnect timer, armed after n consecutive
\* reconnect attempts, is min(maxDelay, baseDelay * multiplier^n); so it is
\* baseDelay for n = 0, never decreases with n and never exceeds maxDelay.
C15_DelayFollowsBackoff ==
  \A t \in PendingTimers : timers[t].delay = Backoff(attempt)

\* C16: whatever maxAttempts is, when a session closes or fails after
\* maxAttempts consecutive reconnect attempts and the user has not stopped,
\* no reconnect timer is pending and the status is Error.
C16_GivesUpAfterMaxAttempts ==
  \A maxAttempts \in MaxAttemptsChoices :
    (attempt >= maxAttempts /\ lastOp \in {"onclose", "onerror"}
       /\ lastUserOp = "start")
      => (PendingTimers = {} /\ status = ERROR)

\* C17: over a keep-alive window without an audio frame, a keep-alive frame
\* is sent if and only if the status is Connected; so none is sent while the
\* status is Disconnected or Connecting.
C17_KeepAliveIffConnectedAndIdle ==
  lastOp = "keepAliveWindow"
    => (frame.outcome = "keepalive" <=> status = CONNECTED)

----------------------------------------------------------------------------
(* Properties of the failure handling *)

\* a startSession of the user ended in its catch block, and the user has not
\* started again since
SetupFailed == \E i \in CallIds : origin[i] = "user.failed"

\* C18: when getUserMedia or connect() rejects in a startSession of the user,
\* an error message is set, the status is Disconnected and no reconnect timer
\* is pending; and connect() is not called until the user starts again.
C18_SetupFailureEndsSession ==
  [][/\ (lastOp' = "startSession.catch" /\ origin' # origin)
          => /\ errorMsg' # "null"
             /\ status' = DISCONNECTED
             /\ PendingTimers' = {}
     /\ (SetupFailed /\ SetupFailed') => ConnectCalls' = ConnectCalls]_vars

\* C19: whatever maxAttempts is, when a startSession run by the reconnect
\* timer ends in its catch block while the user has not stopped and fewer
\* than maxAttempts reconnects were attempted, no error message is set, the
\* status is not Disconnected and a reconnect timer is pending.
C19_FailedReconnectRetries ==
  [][\A maxAttempts \in MaxAttemptsChoices : \A i \in CallIds :
       (/\ lastOp' = "startSession.catch"
        /\ pc'[i] # pc[i]
        /\ origin[i] = "timer"
        /\ ~UserStopped
        /\ attempt < maxAttempts)
         => (/\ errorMsg' = "null"
             /\ status' # DISCONNECTED
             /\ PendingTimers' # {})]_vars

\* C20: when the send of an audio frame fails, no variable of the program
\* changes (status, resources, timers) and the processor that was handed the
\* block still runs, so the following blocks are processed and sent.
C20_SendFailureIsSwallowed ==
  [][(lastOp' = "onaudioprocess" /\ frame'.outcome = "failed")
       => (UNCHANGED progVars /\ frame'.call \in RunningProcessors')]_vars

\* the send of a frame failed in a connected session
C20_Witness ==
  /\ lastOp = "onaudioprocess"
  /\ frame.outcome = "failed"
  /\ status = CONNECTED
  /\ handle[frame.call] = "open"

----------------------------------------------------------------------------
(* Properties of the teardown *)

\* the call x of the teardown was carried out, or had nothing to act on
StepDone(x) ==
  CASE x = "recorder" -> mediaRecorderRef # "recording"
    [] x = "source" -> sourceNodeRef = 0
    [] x = "processor" -> processorRef = 0
    [] x = "tracks" -> mediaStreamRef = 0
    [] x = "context" -> inputAudioContextRef = 0
    [] x = "session" -> sessionRef = 0
    [] x = "timer" -> reconnectTimeoutRef = 0

\* without a throwing call the teardown with failures is stopUserAction
TeardownAgrees ==
  stopUserActionF(S, clock, {}) = stopUserAction(S, clock)

\* C21: after a stopUserAction in which one call of the teardown threw, every
\* other call of the teardown has been carried out.
C21_TeardownIsBestEffort ==
  \A x \in TeardownSteps :
    lastOp = FailOp(x) => \A y \in TeardownSteps \ {x} : StepDone(y)

----------------------------------------------------------------------------
(* Properties of the reconnect cycle *)

\* the calls that wait for getUserMedia
AwaitingMic == {i \in CallIds : pc[i] = "awaitMic"}

\* C22: an onclose or onerror that runs while recording is active stops no
\* microphone track and keeps the stream; a startSession run by the reconnect
\* timer while the held stream is live keeps it and does not call
\* getUserMedia.
C22_ReconnectKeepsMicrophone ==
  [][/\ (lastOp' \in {"onclose", "onerror"} /\ isRecordingActiveRef)
          => (stream' = stream /\ mediaStreamRef' = mediaStreamRef)
     /\ (/\ lastOp' = "startSession.timer"
         /\ mediaStreamRef # 0
         /\ stream[mediaStreamRef] = "live")
          => /\ stream' = stream
             /\ mediaStreamRef' = mediaStreamRef
             /\ AwaitingMic' = AwaitingMic]_vars

\* the startSession of the timer has taken the stream of call 1 over
C22_Witness ==
  /\ lastOp = "startSession.timer"
  /\ stream[1] = "live"
  /\ mediaStreamRef = 1
  /\ \E i \in CallIds : i > 1 /\ localStream[i] = 1 /\ pc[i] = "awaitConnect"

\* C23: isRecordingActiveRef is set to false by a stop of the user only and
\* to true by a start of the user only.
C23_LatchOnlyByUser ==
  [][/\ (isRecordingActiveRef /\ ~isRecordingActiveRef')
          => lastOp' \in {"stopUserAction", "stopUserAction.again"}
     /\ (~isRecordingActiveRef /\ isRecordingActiveRef')
          => lastOp' = "startSession.user"]_vars

\* a later startSession has begun since call i: its handle is not the current
\* one
Superseded(i) == \E j \in CallIds : j > i /\ pc[j] # "unused"

\* onopen, onclose or onerror of handle i runs in this step
CallbackOf(i) ==
  \/ lastOp' = "onopen" /\ handle'[i] = "open" /\ handle[i] # "open"
  \/ lastOp' = "onclose" /\ handle'[i] = "closed" /\ handle[i] # "closed"
  \/ lastOp' = "onerror" /\ handle'[i] = "failed" /\ handle[i] # "failed"

\* the handles that deliver messages
Delivering == {i \in CallIds : handle[i] \in {"open", "closing"}}

\* C24: an onopen, onclose or onerror of a handle that is not the current
\* one changes nothing but the state of that handle: not the status, the
\* audio wiring, the current session or the timers; and a message that only
\* such a handle can have delivered changes nothing.
C24_SupersededCallbackIsInert ==
  [][/\ \A i \in CallIds :
          (Superseded(i) /\ CallbackOf(i))
            => /\ UNCHANGED <<status, errorMsg, liveTranscript, audioBlob,
                              inputAudioContextRef, mediaStreamRef,
                              processorRef, sourceNodeRef, sessionRef,
                              mediaRecorderRef, audioChunksRef,
                              currentInputTransRef, isRecordingActiveRef,
                              reconnectTimeoutRef, ctx, stream, node, timers>>
               /\ \A j \in CallIds \ {i} : handle'[j] = handle[j]
     /\ (/\ lastOp' \in {"onmessage", "onmessage.turnComplete"}
         /\ \A i \in Delivering : Superseded(i))
          => UNCHANGED <<liveTranscript, currentInputTransRef>>]_vars

----------------------------------------------------------------------------
(* Properties of the accumulation buffer *)

IsPrefix(a, b) == Len(a) <= Len(b) /\ SubSeq(b, 1, Len(a)) = a

\* the step rewrites the open entry in place
EntryUpdated ==
  /\ PartialEntries # {}
  /\ Len(liveTranscript') = Len(liveTranscript)
  /\ liveTranscript'[Len(liveTranscript)].id = LastEntry.id

\* the step makes the open entry final, or adds an entry that is final at once
EntryFinalized ==
  \/ /\ EntryUpdated
     /\ ~liveTranscript'[Len(liveTranscript)].isPartial
  \/ /\ Len(liveTranscript') = Len(liveTranscript) + 1
     /\ ~liveTranscript'[Len(liveTranscript')].isPartial

\* the step empties a buffer that held text
BufferReset == currentInputTransRef # <<>> /\ currentInputTransRef' = <<>>

\* C27: every step that rewrites the open (partial) entry gives it a text of
\* which the text it had is a prefix; a step that empties the accumulation
\* buffer finalizes the entry, and a step that finalizes the entry leaves the
\* buffer empty.
C27_AccumulationIsAppendOnly ==
  [][/\ EntryUpdated
          => IsPrefix(LastEntry.text,
                      liveTranscript'[Len(liveTranscript)].text)
     /\ BufferReset => EntryFinalized
     /\ EntryFinalized => currentInputTransRef' = <<>>]_vars

\* a second delta has extended the open entry
C27_Witness ==
  /\ lastOp = "onmessage"
  /\ PartialEntries # {}
  /\ Len(LastEntry.text) = 2
  /\ LastEntry.text = utt.text
  /\ currentInputTransRef = LastEntry.text

----------------------------------------------------------------------------
(* Properties of the audio context *)

\* the session was dropped while the user had not stopped: the step is the
\* onclose or onerror of a recording that holds a running audio context
DroppedWhileRecording ==
  /\ lastOp' \in {"onclose", "onerror"}
  /\ isRecordingActiveRef
  /\ inputAudioContextRef # 0
  /\ ctx[inputAudioContextRef] = "running"

\* C28: the teardown of an unexpected close or error, the user not having
\* stopped, leaves the audio context open and in its ref, and the startSession
\* the reconnect timer runs keeps the audio context it finds.
C28_DropKeepsAudioContext ==
  [][/\ DroppedWhileRecording
          => /\ inputAudioContextRef' = inputAudioContextRef
             /\ ctx'[inputAudioContextRef] = "running"
     /\ (lastOp' = "startSession.timer" /\ inputAudioContextRef # 0)
          => inputAudioContextRef' = inputAudioContextRef]_vars

----------------------------------------------------------------------------
(* Properties of the frames captured before the connect promise resolves *)

\* the session of call i has not been stopped, dropped or superseded
StillCurrent(i) ==
  /\ isRecordingActiveRef
  /\ handle[i] = "open"
  /\ \A j \in CallIds : j > i => pc[j] = "unused"

\* the step resolves the connect promise of call i
Resolves(i) == promise[i] # "resolved" /\ promise'[i] = "resolved"

\* C26: an audio block processed while the connect promise of its call has not
\* resolved is queued, not sent and not dropped; the step that resolves the
\* promise sends every queued frame once, in capture order, and empties the
\* queue, and the frames reach the server if the session has not been stopped
\* or superseded; no other step changes the queue.
C26_PendingFramesAreQueued ==
  [][\A i \in CallIds :
       /\ (lastOp' = "onaudioprocess" /\ frame'.call = i
             /\ promise[i] # "resolved")
            => /\ frame'.outcome = "queued"
               /\ queue'[i] = Append(queue[i], Len(queue[i]) + 1)
       /\ (Resolves(i) /\ queue[i] # <<>>)
            => /\ flushed'.call = i
               /\ flushed'.frames = queue[i]
               /\ queue'[i] = <<>>
               /\ StillCurrent(i) => flushed'.outcome = "delivered"
       /\ queue'[i] # queue[i]
            => \/ lastOp' = "onaudioprocess" /\ frame'.call = i
               \/ Resolves(i)]_vars

\* two frames were captured before the promise resolved and its resolution
\* has sent them
C26_Witness ==
  /\ lastOp = "startSession.resolved"
  /\ flushed.frames = <<1, 2>>
  /\ flushed.outcome = "delivered"
  /\ isRecordingActiveRef
  /\ status = CONNECTED

----------------------------------------------------------------------------
(* The export of the transcript (handleDownload, handleCopy) *)

\* texts are sequences of characters; "\n" is the line break
MaxLine == 2
ExportChars == {"a", "\n"}
ExportTexts == UNION {[1..n -> ExportChars] : n \in 1..MaxLine}

\* the transcripts a session can leave behind: final entries, numbered in
\* order, of any text the service sent
Transcripts ==
  UNION {{[k \in 1..n |-> [id |-> k, timestamp |-> f[k][2], speaker |-> "user",
                           text |-> f[k][1], isPartial |-> FALSE]] :
            f \in [1..n -> ExportTexts \X (0..MaxClock)]} :
         n \in 0..MaxEntries}

\* mutant: the template leaves out the space after the bracket
renderEntry_NoSpace(t) == <<"[", ToString(t.timestamp), "]">> \o t.text

\* t => `[${t.timestamp}] ${t.text}`
renderEntry(t) == <<"[", ToString(t.timestamp), "]", " ">> \o t.text

\* Array.prototype.join(sep)
RECURSIVE join(_, _)
join(lines, sep) ==
  IF lines = <<>> THEN <<>>
  ELSE IF Len(lines) = 1 THEN lines[1]
  ELSE lines[1] \o sep \o join(Tail(lines), sep)

\* source.map(t => `[${t.timestamp}] ${t.text}`).join('\n')
exportText(source) ==
  join([k \in 1..Len(source) |-> renderEntry(source[k])], <<"\n">>)

\* link.click() on the Blob of the text
HandleDownload ==
  /\ exported' = exportText(liveTranscript)
  /\ UNCHANGED <<progVars, localStorage, clients, selectedClient, view,
                 descriptionPreview, pendingTranscript, isGenerating>>
  /\ NoteBase("handleDownload", lastUserOp, utt)
  /\ flushed' = NoFlush

\* navigator.clipboard.writeText(text)
HandleCopy ==
  /\ exported' = exportText(liveTranscript)
  /\ UNCHANGED <<progVars, localStorage, clients, selectedClient, view,
                 descriptionPreview, pendingTranscript, isGenerating>>
  /\ NoteBase("handleCopy", lastUserOp, utt)
  /\ flushed' = NoFlush

\* the export of every transcript a session can leave behind
InitExport ==
  /\ InitBase
  /\ variant = "App.tsx"
  /\ liveTranscript \in Transcripts
  /\ localStorage = <<>>
  /\ clients = <<>>

NextExport ==
  \/ HandleDownload
  \/ HandleCopy

SpecExport == InitExport /\ [][NextExport]_vars

\* the lines of a text: the pieces between its line breaks; the empty text
\* has no line
RECURSIVE Split(_)
Split(text) ==
  IF \A k \in 1..Len(text) : text[k] # "\n"
    THEN <<text>>
    ELSE LET k == CHOOSE j \in 1..Len(text) :
                    /\ text[j] = "\n"
                    /\ \A m \in 1..(j - 1) : text[m] # "\n"
         IN <<SubSeq(text, 1, k - 1)>> \o Split(SubSeq(text, k + 1, Len(text)))

LinesOf(text) == IF text = <<>> THEN <<>> ELSE Split(text)

\* the entries in list order, each as [timestamp], one space and its text,
\* with one line break between two entries
RECURSIVE Listing(_)
Listing(entries) ==
  IF entries = <<>> THEN <<>>
  ELSE (IF Len(entries) = 1 THEN <<>>
        ELSE Listing(SubSeq(entries, 1, Len(entries) - 1)) \o <<"\n">>)
       \o <<"[">> \o <<ToString(entries[Len(entries)].timestamp)>>
       \o <<"]">> \o <<" ">> \o entries[Len(entries)].text

\* the line breaks inside the texts of the entries
BreaksIn(entries) ==
  {p \in (1..Len(entries)) \X (1..MaxLine) :
     p[2] <= Len(entries[p[1]].text) /\ entries[p[1]].text[p[2]] = "\n"}

Exporting == lastOp \in {"handleDownload", "handleCopy"}

\* C25 (as stated): the exported text is the entries in list order, each as
\* [timestamp], one space and the text, joined by single line breaks, and it
\* has one line per entry.
C25_OneLinePerEntry ==
  Exporting
    => /\ exported = Listing(liveTranscript)
       /\ Len(LinesOf(exported)) = Len(liveTranscript)

\* C25 (amended): the exported text is the entries in list order, each as
\* [timestamp], one space and the text, joined by single line breaks; it has
\* one line per entry and one more for every line break inside an entry
\* text, so its lines are the rendered entries if no entry text holds a line
\* break.
C25_ExportListsEntries ==
  Exporting
    => /\ exported = Listing(liveTranscript)
       /\ Len(LinesOf(exported))
            = Len(liveTranscript) + Cardinality(BreaksIn(liveTranscript))
       /\ BreaksIn(liveTranscript) = {}
            => LinesOf(exported)
                 = [k \in 1..Len(liveTranscript) |->
                      <<"[", ToString(liveTranscript[k].timestamp), "]", " ">>
                        \o liveTranscript[k].text]

\* two entries were exported on three lines
C25_Witness ==
  /\ lastOp = "handleDownload"
  /\ Len(liveTranscript) = 2
  /\ BreaksIn(liveTranscript) # {}
  /\ Len(LinesOf(exported)) = 3

----------------------------------------------------------------------------
(* The client list (src/utils/storage.ts) and the handlers of the client     *)
(* views (src/unnamed/part_001)                                              *)

MaxClients == 2
ClientNames == {"n"}

\* response.text || '': the description the model returns, possibly empty
Descriptions == {"", "d"}

\* JSON.stringify(clients): the stored text, one tuple per record
stringify(cs) ==
  [k \in 1..Len(cs) |->
     <<cs[k].id, cs[k].name, cs[k].knowledgeBase, cs[k].sessions>>]

\* JSON.parse(data)
parse(data) ==
  [k \in 1..Len(data) |->
     [id |-> data[k][1], name |-> data[k][2], knowledgeBase |-> data[k][3],
      sessions |-> data[k][4]]]

\* localStorage.getItem(STORAGE_KEY) is null until the first setItem: the
\* storage is the sequence of the values under the key, empty or of one text
getClients(ls) == IF ls = <<>> THEN <<>> ELSE parse(ls[1])

\* clients.findIndex(c => c.id === id), counted from 1; 0: none
findIndex(cs, id) ==
  IF \E k \in 1..Len(cs) : cs[k].id = id
    THEN CHOOSE k \in 1..Len(cs) :
           /\ cs[k].id = id
           /\ \A j \in 1..(k - 1) : cs[j].id # id
    ELSE 0

\* mutant: the record is pushed whether or not its id is stored
saveClient_AlwaysPush(ls, client) ==
  <<stringify(Append(getClients(ls), client))>>

saveClient(ls, client) ==
  <<stringify(IF findIndex(getClients(ls), client.id) > 0
                THEN [getClients(ls) EXCEPT
                        ![findIndex(getClients(ls), client.id)] = client]
                ELSE Append(getClients(ls), client))>>

\* Date.now().toString(): later than the id of every stored record
FreshClientId(cs) == Len(cs) + 1

createNewClient(name, id) ==
  [id |-> id, name |-> name, knowledgeBase |-> "", sessions |-> <<>>]

clearRecordingData(s) ==
  [s EXCEPT !.liveTranscript = <<>>, !.audioBlob = 0, !.audioChunksRef = 0]

HandleCreateClient ==
  /\ view = "dashboard"
  /\ Len(getClients(localStorage)) < MaxClients
  /\ \E name \in ClientNames :
       /\ localStorage' =
            saveClient(localStorage,
                       createNewClient(name,
                                       FreshClientId(getClients(localStorage))))
       /\ selectedClient' =
            createNewClient(name, FreshClientId(getClients(localStorage)))
  /\ clients' = getClients(localStorage')
  /\ view' = "client-detail"
  /\ UNCHANGED <<progVars, exported, descriptionPreview, pendingTranscript,
                 isGenerating>>
  /\ NoteBase("handleCreateClient", lastUserOp, utt)
  /\ flushed' = NoFlush

HandleSelectClient ==
  /\ view = "dashboard"
  /\ \E k \in 1..Len(clients) : selectedClient' = clients[k]
  /\ view' = "client-detail"
  /\ UNCHANGED <<progVars, exported, localStorage, clients,
                 descriptionPreview, pendingTranscript, isGenerating>>
  /\ NoteBase("handleSelectClient", lastUserOp, utt)
  /\ flushed' = NoFlush

HandleBackToDashboard ==
  /\ view = "client-detail"
  /\ view' = "dashboard"
  /\ selectedClient' = NoClient
  /\ Commit(stopUserAction(S, clock))
  /\ UNCHANGED <<exported, localStorage, clients, descriptionPreview,
                 pendingTranscript, isGenerating>>
  /\ NoteBase("handleBackToDashboard", "stop", UttReset)
  /\ flushed' = NoFlush

\* the startSession it calls is the one of the render of the click
StartRecordingForClient ==
  /\ view = "client-detail"
  /\ selectedClient # NoClient
  /\ startGuard(RenderClosure) => NextCall # 0
  /\ Commit(startSession(clearRecordingData(S), NextCall, RenderClosure, TRUE))
  /\ view' = "recording"
  /\ UNCHANGED <<exported, localStorage, clients, selectedClient,
                 descriptionPreview, pendingTranscript, isGenerating>>
  /\ NoteBase("startSession.user",
              IF startGuard(RenderClosure) THEN "start" ELSE lastUserOp, utt)
  /\ flushed' = NoFlush

\* the recording view shows its buttons unless the preview is shown
RecordingButtons ==
  /\ view = "recording"
  /\ selectedClient # NoClient
  /\ ~isGenerating
  /\ descriptionPreview \in {"null", ""}

RecordingStop == RecordingButtons /\ UserStop

\* finalTranscript is the live transcript: no diarization is modelled
SaveSessionToClient ==
  /\ RecordingButtons
  /\ IF liveTranscript = <<>>
       THEN /\ view' = "client-detail"
            /\ UNCHANGED <<pendingTranscript, isGenerating, descriptionPreview>>
       ELSE /\ pendingTranscript' = <<liveTranscript>>
            /\ isGenerating' = TRUE
            /\ descriptionPreview' = "null"
            /\ view' = view
  /\ UNCHANGED <<progVars, exported, localStorage, clients, selectedClient>>
  /\ NoteBase("saveSessionToClient", lastUserOp, utt)
  /\ flushed' = NoFlush

\* generateContent settles: a description, or the catch block
DescriptionGenerated ==
  /\ isGenerating
  /\ descriptionPreview' \in Descriptions \cup {"null"}
  /\ isGenerating' = FALSE
  /\ UNCHANGED <<progVars, exported, localStorage, clients, selectedClient,
                 view, pendingTranscript>>
  /\ NoteBase("generateDescriptionPreview", lastUserOp, utt)
  /\ flushed' = NoFlush

\* the buttons of the preview
PreviewButtons ==
  /\ view = "recording"
  /\ selectedClient # NoClient
  /\ ~isGenerating
  /\ descriptionPreview \notin {"null", ""}

AcceptDescription ==
  /\ PreviewButtons
  /\ selectedClient' =
       [selectedClient EXCEPT !.knowledgeBase = descriptionPreview]
  /\ localStorage' = saveClient(localStorage, selectedClient')
  /\ clients' = getClients(localStorage')
  /\ descriptionPreview' = "null"
  /\ pendingTranscript' = <<>>
  /\ Commit(clearRecordingData(S))
  /\ view' = "client-detail"
  /\ UNCHANGED <<exported, isGenerating>>
  /\ NoteBase("acceptDescription", lastUserOp, utt)
  /\ flushed' = NoFlush

RejectDescription ==
  /\ PreviewButtons
  /\ descriptionPreview' = "null"
  /\ pendingTranscript' = <<>>
  /\ Commit(clearRecordingData(S))
  /\ view' = "client-detail"
  /\ UNCHANGED <<exported, localStorage, clients, selectedClient,
                 isGenerating>>
  /\ NoteBase("rejectDescription", lastUserOp, utt)
  /\ flushed' = NoFlush

\* The client views: clients are created and selected, a recording is made
\* for the selected client and saved or discarded
NextClients ==
  \/ HandleCreateClient
  \/ HandleSelectClient
  \/ HandleBackToDashboard
  \/ StartRecordingForClient
  \/ RecordingStop
  \/ SaveSessionToClient
  \/ DescriptionGenerated
  \/ AcceptDescription
  \/ RejectDescription
  \/ \E i \in CallIds : MicGrants(i, {TRUE})
  \/ \E i \in CallIds : ConnectResolved(i)
  \/ \E i \in CallIds : OnOpen(i)
  \/ \E i \in CallIds : OnMessage(i)
  \/ \E i \in CallIds : CloseRejected(i)

\* the client views exist in src/unnamed/part_001 only
InitClients ==
  /\ InitBase
  /\ variant = "part_001"
  /\ liveTranscript = <<>>
  /\ localStorage = <<>>
  /\ clients = <<>>

SpecClients == InitClients /\ [][NextClients]_vars

----------------------------------------------------------------------------
(* Properties of the client list *)

\* the stored record of the client with the given id
StoredClient(ls, id) == getClients(ls)[findIndex(getClients(ls), id)]

\* C29: the step that saves a finished recording for the selected client
\* (acceptDescription, which ends what saveSessionToClient began) adds one
\* session record holding the finished transcript at the end of the stored
\* sessions of that client and leaves the records before it as they were.
C29_SaveAppendsSession ==
  [][lastOp' = "acceptDescription"
       => /\ Len(StoredClient(localStorage', selectedClient.id).sessions)
               = Len(StoredClient(localStorage, selectedClient.id).sessions) + 1
          /\ SubSeq(StoredClient(localStorage', selectedClient.id).sessions, 1,
                    Len(StoredClient(localStorage, selectedClient.id).sessions))
               = StoredClient(localStorage, selectedClient.id).sessions
          /\ StoredClient(localStorage', selectedClient.id).sessions[
               Len(StoredClient(localStorage', selectedClient.id).sessions)
             ].transcript = pendingTranscript[1]]_vars

\* the positions of the records with the given id
Holding(cs, id) == {k \in 1..Len(cs) : cs[k].id = id}

DistinctIds(cs) ==
  \A j, k \in 1..Len(cs) : cs[j].id = cs[k].id => j = k

\* C30: after saveClient(c) on a stored list of distinct ids exactly one
\* stored record has the id of c and it equals c, every record of another id
\* is unchanged at its position, the list is longer by one if the id of c was
\* not stored and as long as before if it was, and saving c once more changes
\* nothing.
C30_SaveClientUpdatesById ==
  [][(/\ lastOp' \in {"handleCreateClient", "acceptDescription"}
      /\ DistinctIds(getClients(localStorage)))
       => /\ Cardinality(Holding(getClients(localStorage'),
                                 selectedClient'.id)) = 1
          /\ StoredClient(localStorage', selectedClient'.id) = selectedClient'
          /\ \A k \in 1..Len(getClients(localStorage)) :
               getClients(localStorage)[k].id # selectedClient'.id
                 => /\ k <= Len(getClients(localStorage'))
                    /\ getClients(localStorage')[k] = getClients(localStorage)[k]
          /\ Len(getClients(localStorage'))
               = Len(getClients(localStorage))
                   + (IF Holding(getClients(localStorage),
                                 selectedClient'.id) = {} THEN 1 ELSE 0)
          /\ saveClient(localStorage', selectedClient') = localStorage']_vars

\* the first of two stored clients was updated; the second kept its place
C30_Witness ==
  /\ lastOp = "acceptDescription"
  /\ Len(getClients(localStorage)) = 2
  /\ selectedClient = getClients(localStorage)[1]
  /\ selectedClient.knowledgeBase = "d"
  /\ getClients(localStorage)[2].knowledgeBase = ""
  /\ clients = getClients(localStorage)

----------------------------------------------------------------------------
(* Properties of the status *)

\* C31: whenever the status is Connected a transport handle has opened and
\* has been neither closed nor torn down; so the status is not Connected
\* after onerror tore the session down and armed the reconnect timer.
C31_ConnectedHasOpenHandle ==
  status = CONNECTED => \E i \in CallIds : handle[i] = "open" /\ ~TornDown(i)

----------------------------------------------------------------------------
(* Properties of the reconnect timers *)

\* C32: at most one reconnect timer is pending, under any interleaving of
\* the onclose and onerror callbacks, and one disconnect leads to one
\* timer-driven startSession: no callback of a call schedules a reconnect
\* after a timer-driven startSession has followed that call.
C32_OneReconnectPerDisconnect ==
  [][/\ Cardinality(PendingTimers') <= 1
     /\ \A i \in CallIds :
          (/\ lastOp' \in {"onclose", "onerror"}
           /\ handle'[i] # handle[i]
           /\ isRecordingActiveRef
           /\ PendingTimers' # {})
            => \A j \in CallIds : j > i => origin[j] # "timer"]_vars

----------------------------------------------------------------------------
(* Properties that tie the open entry to the accumulation buffer *)

\* C33: whenever the last entry of the live transcript is partial the
\* accumulation buffer is not empty and the text of the entry is the buffer;
\* whenever the buffer is empty no entry is partial.
C33_OpenEntryIsBuffer ==
  /\ (liveTranscript # <<>> /\ LastEntry.isPartial)
       => /\ currentInputTransRef # <<>>
          /\ LastEntry.text = currentInputTransRef
  /\ currentInputTransRef = <<>> => PartialEntries = {}

\* the open entry of a second utterance holds two deltas
C33_Witness ==
  /\ Len(liveTranscript) = 2
  /\ LastEntry.isPartial
  /\ Len(currentInputTransRef) = 2
  /\ lastOp = "onmessage"

----------------------------------------------------------------------------
(* Properties of clearCurrentTranscript *)

\* C34: text received before the user cleared the live transcript does not
\* reappear: the step that follows the clear leaves the transcript empty or
\* is a message whose delta is the text of the one entry it creates, also
\* when the clear fell into an utterance.
C34_ClearedTextStaysGone ==
  [][(lastOp = "clearCurrentTranscript" /\ liveTranscript' # <<>>)
       => /\ lastOp' \in {"onmessage", "onmessage.turnComplete"}
          /\ Len(liveTranscript') = 1
          /\ liveTranscript'[1].text \in Deltas]_vars

----------------------------------------------------------------------------
(* The local recording *)

\* chunks the recorder delivers in one behaviour
MaxChunks == 2

\* recorder.ondataavailable
ondataavailable(s, size) ==
  IF size > 0 THEN [s EXCEPT !.audioChunksRef = s.audioChunksRef + 1] ELSE s

\* the recorder started with start(1000) delivers the next second of audio
DataAvailable ==
  /\ mediaRecorderRef = "recording"
  /\ audioChunksRef < MaxChunks
  /\ \E size \in {0, 1} : Commit(ondataavailable(S, size))
  /\ Note("ondataavailable", lastUserOp, utt)

\* The recording: the user starts, stops, starts again and clears, while the
\* recorder delivers chunks and the transport drops and reconnects
NextRecording ==
  \/ StartUser({TRUE})
  \/ UserStop
  \/ UserClear
  \/ DataAvailable
  \/ \E t \in TimerIds : TimerFires(t, {TRUE})
  \/ \E i \in CallIds : MicGrants(i, {TRUE})
  \/ \E i \in CallIds : ConnectResolved(i)
  \/ \E i \in CallIds : OnOpen(i)
  \/ \E i \in CallIds : OnMessage(i)
  \/ \E i \in CallIds : OnClose(i)

SpecRecording == Init /\ [][NextRecording]_vars

\* C35: startSession resets the recorded chunks only for a fresh session: a
\* startSession that runs while the live transcript holds entries leaves the
\* recorded chunks and the audio blob as they were.
C35_ChunksResetOnlyWhenFresh ==
  [][(/\ lastOp' \in {"startSession.user", "startSession.timer"}
      /\ \E i \in CallIds : pc[i] = "unused" /\ pc'[i] # "unused"
      /\ liveTranscript # <<>>)
       => (audioChunksRef' = audioChunksRef /\ audioBlob' = audioBlob)]_vars

----------------------------------------------------------------------------
(* Frame of the reconciler *)

\* C36: a reconciler update touches only the last entry: an update or a
\* finalization of the partial entry keeps its id, timestamp, speaker and
\* position and every earlier entry; an append keeps all existing entries.
C36_ReconcilerTouchesLastOnly ==
  [][(liveTranscript' # liveTranscript /\ lastOp' # "clearCurrentTranscript")
       => LET n == Len(liveTranscript)
              EarlierKept(m) ==
                \A k \in 1..(m - 1) : liveTranscript'[k] = liveTranscript[k]
          IN \/ /\ Len(liveTranscript') = n
                /\ n > 0
                /\ liveTranscript[n].isPartial
                /\ liveTranscript'[n].id = liveTranscript[n].id
                /\ liveTranscript'[n].timestamp = liveTranscript[n].timestamp
                /\ liveTranscript'[n].speaker = liveTranscript[n].speaker
                /\ EarlierKept(n)
             \/ /\ Len(liveTranscript') = n + 1
                /\ EarlierKept(n + 1)]_vars

\* the open entry of a second utterance was updated a second later than it
\* was created
C36_Witness ==
  /\ Len(liveTranscript) = 2
  /\ LastEntry.isPartial
  /\ LastEntry.timestamp < clock
  /\ Len(LastEntry.text) = 2
  /\ lastOp = "onmessage"

----------------------------------------------------------------------------
(* Views of the client-profile variant *)

\* C37: in the client-profile variant no session is live outside the
\* recording view: in the dashboard and in the client detail the status is
\* Disconnected and no transport handle or microphone stream is held.
C37_NoSessionOutsideRecording ==
  view \in {"dashboard", "client-detail"}
    => /\ status = DISCONNECTED
       /\ LiveHandles = {}
       /\ \A i \in CallIds : stream[i] # "live"

----------------------------------------------------------------------------
(* Audio-context setup after a teardown *)

\* C38: startSession never calls close() on an audio context a previous
\* teardown has closed already, so that a startSession after a teardown gets
\* past the audio-context setup; in both variants of the session code.
C38_StartNeverClosesClosedContext ==
  ~ \E i \in CallIds : pc[i] = "closeRejected"

====
